---- MODULE Spec2Model ----
(***************************************************************************)
(* Double-buffered artificial-life grid of src/src/main.cpp: the cell      *)
(* store (currentGrid / nextGrid), the bot virtual machine (ProcessBot)    *)
(* and the chunked multi-threaded tick (UpdateWorld).                      *)
(*                                                                         *)
(* The grid is scaled down (WORLD_W x WORLD_H), bots start with little     *)
(* energy (StartEnergy) so that deaths happen within MaxTicks ticks, two   *)
(* racing bots apart, which start with the program's 500 (RichKinds);      *)
(* every other number is the program's.  Each worker thread takes one step *)
(* per loop iteration and per fetched opcode; the only cells two threads   *)
(* can both touch are relocation targets, so a relocation is split at its  *)
(* read of writeGrid[nIdx].bot.alive (line 142) and its non-atomic struct  *)
(* copy into writeGrid[nIdx].bot (line 143), which is written byte by byte *)
(* (Accesses) so that two racing copies can tear.  GetRandomValue is a     *)
(* stream chosen at the start (LuckyDraws).                                *)
(***************************************************************************)
EXTENDS Integers, Sequences, FiniteSets, TLC

(* ------------------------------ bounds --------------------------------- *)
\* grid width and height of the scaled-down torus (256 x 128 in the program)
WORLD_W == 3
WORLD_H == 2
\* number of UpdateWorld calls explored
MaxTicks == 2
\* energy every bot of a new world gets (500 in the program)
StartEnergy == 1

(* ------------------------- program constants --------------------------- *)
GENOME_SIZE == 64
\* mutant of CommandLimit: the loop test written <= instead of <
CommandLimitOffByOne == 10 + 1

\* instruction budget of one ProcessBot call (while commandsExecuted < 10)
CommandLimit == 10
\* organic left by a corpse
CorpseOrganic == 50
\* most organic eaten by one opcode 30
EatMax == 20
\* energy gained by opcode 20
SunEnergy == 5
\* energy paid for a relocation
MoveCost == 2
\* energy paid per tick
ExistCost == 1
\* organic added by a regrowth event
RegrowOrganic == 10
\* fallback thread count when hardware_concurrency() reports 0
FallbackThreads == 4

COLOR_BOT == <<0, 255, 0, 255>>
COLOR_GREEN == <<0, 255, 0, 255>>
COLOR_RED == <<150, 0, 0, 255>>

DIR_X == <<0, 1, 1, 1, 0, -1, -1, -1>>
DIR_Y == <<-1, -1, 0, 1, 1, 1, 0, -1>>

NumCells == WORLD_W * WORLD_H
Cells == 0 .. (NumCells - 1)
GenomeIdx == 0 .. (GENOME_SIZE - 1)

(* ----------------------------- data model ------------------------------ *)
\* struct Bot after value-initialisation (std::vector<Cell>(n))
DefaultBot ==
    [alive |-> FALSE, genome |-> [g \in GenomeIdx |-> 0], ip |-> 0, dir |-> 0,
     energy |-> 0, color |-> COLOR_BOT]

\* struct Cell after value-initialisation
DefaultCell == [bot |-> DefaultBot, organic |-> 0]

\* C++ int division by 2 (truncation toward zero)
Half(x) == IF x >= 0 THEN x \div 2 ELSE -((-x) \div 2)

Min(a, b) == IF a < b THEN a ELSE b

(* --------------------------- the bot machine --------------------------- *)
\* mutant of NeighborIdx: the step stops at the grid edge instead of wrapping
NeighborClamped(idx, dir) ==
    LET nx == (idx % WORLD_W) + DIR_X[dir + 1]
        ny == (idx \div WORLD_W) + DIR_Y[dir + 1]
        cx == IF nx < 0 THEN 0 ELSE IF nx >= WORLD_W THEN WORLD_W - 1 ELSE nx
        cy == IF ny < 0 THEN 0 ELSE IF ny >= WORLD_H THEN WORLD_H - 1 ELSE ny
    IN  cy * WORLD_W + cx

\* toroidal neighbour of idx in direction dir (lines 123-129)
NeighborIdx(idx, dir) ==
    LET dx == DIR_X[dir + 1]
        dy == DIR_Y[dir + 1]
        nx == ((idx % WORLD_W) + dx + WORLD_W) % WORLD_W
        ny == ((idx \div WORLD_W) + dy + WORLD_H) % WORLD_H
    IN  ny * WORLD_W + nx

\* instruction fetch: nextBot.ip = (nextBot.ip + 1) % GENOME_SIZE (line 94)
Fetch(nb) == [nb EXCEPT !.ip = (@ + 1) % GENOME_SIZE]

\* mutant of Jump: the sum is not reduced modulo the genome size
JumpNoWrap(nb, cmd) == [nb EXCEPT !.ip = @ + cmd]

\* opcodes 0-7: relative jump (line 99)
Jump(nb, cmd) == [nb EXCEPT !.ip = (@ + cmd) % GENOME_SIZE]

\* mutant of Turn: the direction is not reduced modulo 8
TurnNoWrap(nb, cmd) == [nb EXCEPT !.dir = @ + (cmd - 10)]

\* opcodes 10-15: turn (line 103)
Turn(nb, cmd) == [nb EXCEPT !.dir = (@ + (cmd - 10)) % 8]

\* mutant of Photosynthesis: the colour is left as it was
PhotosynthesisNoColor(nb) == [nb EXCEPT !.energy = @ + SunEnergy]

\* opcode 20: photosynthesis (lines 107-108)
Photosynthesis(nb) ==
    [nb EXCEPT !.energy = @ + SunEnergy, !.color = COLOR_GREEN]

\* mutant of EatAmount: a full bite whatever organic is there
EatAmountFull(organic) == EatMax

\* opcode 30: amount eaten from the organic of the read grid (line 114)
EatAmount(organic) == Min(organic, EatMax)

\* opcode 30: the bot after eating (lines 113-118)
Eat(nb, organic) ==
    IF organic > 0
    THEN [nb EXCEPT !.energy = @ + EatAmount(organic), !.color = COLOR_RED]
    ELSE nb

\* mutant of Eaten: the organic is not taken from the cell
EatenNothing(nextOrganic, organic) == nextOrganic

\* opcode 30: the organic left in the write grid (lines 113-116)
Eaten(nextOrganic, organic) ==
    IF organic > 0 THEN nextOrganic - EatAmount(organic) ELSE nextOrganic

\* mutant of Attack: the whole energy of the neighbour is gained
AttackFull(nb, victim) == [nb EXCEPT !.energy = @ + victim.energy]

\* opcode 40, neighbour alive in the read grid: attack (line 133)
Attack(nb, victim) == [nb EXCEPT !.energy = @ + Half(victim.energy)]

\* byte offsets of the members of struct Bot (lines 19-26): alive, then the
\* genome bytes, ip, dir, one byte of padding, the int energy and the colour
AliveAt == 0
GenomeAt == AliveAt + 1
IpAt == GenomeAt + GENOME_SIZE
DirAt == IpAt + 1
EnergyAt == ((DirAt + 4) \div 4) * 4
ColorAt == EnergyAt + 4
BotSize == ColorAt + 4

\* bytes moved by one access of the copy of line 143 in the build that makes
\* the most of them
AccessSize == 1

\* line 143 is a plain struct assignment that the compiler turns into a row
\* of memory accesses: the first and last byte of each, in program order.
\* With the byte-loop copy strategy the record is moved byte by byte; the
\* size-optimised build moves it word by word (rep movsl, 19 moves of 4
\* bytes), the unoptimised build makes 8-byte stores at 0, 8, .., 56, then at
\* 60 and 68, and the speed-optimised build 16-byte stores at 0, 16, 32, 48
\* and 60: each of these is a run of neighbouring bytes, so every record two
\* racing copies of any build can leave is left by two byte-wise copies
Accesses ==
    [k \in 1 .. (BotSize \div AccessSize) |->
        <<AccessSize * (k - 1), AccessSize * k - 1>>]

\* an access to bytes lo..hi covers the byte at
Covers(st, at) == st[1] <= at /\ at <= st[2]

\* byte k (0 the lowest) of the 32-bit two's complement int x
ByteOf(x, k) == (x \div (256 ^ k)) % 256

\* the int whose four bytes, lowest first, are b
IntOf(b) ==
    b[1] + 256 * b[2] + 65536 * b[3]
    + 16777216 * (IF b[4] >= 128 THEN b[4] - 256 ELSE b[4])

\* one access of the copy of line 143: the bytes inside it are taken from
\* src, the others are left as they are in dst; the int energy lies in
\* memory lowest byte first, the colour as r, g, b, a
CopyStore(dst, src, st) ==
    [alive  |-> IF Covers(st, AliveAt) THEN src.alive ELSE dst.alive,
     genome |-> [g \in GenomeIdx |->
                    IF Covers(st, GenomeAt + g) THEN src.genome[g]
                    ELSE dst.genome[g]],
     ip     |-> IF Covers(st, IpAt) THEN src.ip ELSE dst.ip,
     dir    |-> IF Covers(st, DirAt) THEN src.dir ELSE dst.dir,
     energy |-> IntOf([k \in 1 .. 4 |->
                    IF Covers(st, EnergyAt + k - 1)
                    THEN ByteOf(src.energy, k - 1)
                    ELSE ByteOf(dst.energy, k - 1)]),
     color  |-> [k \in 1 .. 4 |->
                    IF Covers(st, ColorAt + k - 1) THEN src.color[k]
                    ELSE dst.color[k]]]

\* mutant of Vacate: the source index is not released
VacateKeepsAlive(nb) == [nb EXCEPT !.energy = @ - MoveCost]

\* what a relocation leaves at the source index (lines 144-145)
Vacate(nb) == [nb EXCEPT !.alive = FALSE, !.energy = @ - MoveCost]

\* existence cost (line 154)
Exist(nb) == [nb EXCEPT !.energy = @ - ExistCost]

\* mutant of Decay: the corpse replaces the organic instead of adding to it
DecayAssign(cell) ==
    [cell EXCEPT !.organic = CorpseOrganic, !.bot.alive = FALSE]

\* death handling (lines 78-82)
Decay(cell) ==
    [cell EXCEPT !.organic = @ + CorpseOrganic, !.bot.alive = FALSE]

\* carry-over of one cell (lines 185-186)
Prepare(nextCell, curCell) ==
    [nextCell EXCEPT !.bot.alive = FALSE, !.organic = curCell.organic]

(* ------------------------------ genomes -------------------------------- *)
Repeat(pattern) ==
    [g \in GenomeIdx |-> pattern[(g % Len(pattern)) + 1]]

GenomeMove == Repeat(<<40>>)
\* a mover told apart from GenomeMove by two bytes it does not reach
GenomeMoveMarked == [g \in GenomeIdx |-> IF g \in {10, 60} THEN 41 ELSE 40]
GenomePhoto == Repeat(<<20>>)
GenomeEat == Repeat(<<30>>)
GenomeEatPhoto == Repeat(<<30, 20>>)
GenomeJump == Repeat(<<0, 1, 2, 3, 4, 5, 6, 7>>)
GenomeNoop == Repeat(<<8, 9, 16, 19, 21, 29, 31, 39, 41, 255>>)
GenomeTurnMove == Repeat(<<13, 9, 3, 40>>)
\* jumps that carry ip past the end of the genome: from 0 by 8 to 56, on to
\* 57, from there +1 +7 to 1 (photosynthesis); in the next turn from 2 by 8
\* to 58, on to 63, where the fetch of the turn opcode takes ip to 0
GenomeWrap ==
    [g \in GenomeIdx |->
        IF g = 1 THEN 20 ELSE IF g = 56 THEN 0 ELSE IF g = 58 THEN 4
        ELSE IF g = 63 THEN 13 ELSE 7]
\* a bot that eats, then moves
GenomeEatMove == [g \in GenomeIdx |-> IF g = 0 THEN 30 ELSE 40]
\* a bot that photosynthesises, then moves
GenomePhotoMove == [g \in GenomeIdx |-> IF g = 0 THEN 20 ELSE IF g = 5 THEN 41 ELSE 40]

\* (dir, genome) of the bots spawned alone in a corner of the grid: movers
\* in every direction
MoverKinds == {0, 1, 2, 3, 4, 5, 6, 7} \X {GenomeMove}

\* the first and the last cell: between them they touch all four edges
Corners == {0, NumCells - 1}

\* (dir, genome) of the bots spawned alone in any cell
SoloKinds ==
    ({0, 7} \X {GenomeTurnMove})
    \cup ({7} \X {GenomeWrap})
    \cup ({5} \X {GenomePhoto, GenomeEat, GenomeEatPhoto, GenomeJump, GenomeNoop})

\* (dir, genome) of the bots spawned in pairs
PairKinds ==
    {<<2, GenomeMove>>, <<4, GenomeMoveMarked>>, <<5, GenomePhoto>>}

\* values std::thread::hardware_concurrency() reports
HardwareThreads == {1, 2}

\* the same, for the study of the ranges: thread counts that divide the
\* number of cells, that do not, and one larger than the number of cells
ManyThreads == {1, 2, 3, 4, 5, 7}

\* the populations for the study of the ranges, each with the thread counts
\* it is run with: a mover in the last cell, or a bot of blank opcodes there
RangeSpawns ==
    ({ [c \in {NumCells - 1} |-> <<2, GenomeMove>>] } \X {1, 2, 3, 4, 5})
    \cup ({ [c \in {NumCells - 1} |-> <<5, GenomeNoop>>] } \X ManyThreads)

\* the cell a bot of kind k at p faces
Ahead(p, k) == NeighborIdx(p, k[1])

\* two bots that get in each other's way: the bot of kind k at p, the first
\* cell, is a mover and the bot at q is one or two cells ahead of it, or is a
\* mover that faces the same cell
Meet(p, k, q, l) ==
    /\ p = 0
    /\ p # q
    /\ k[2][0] = 40
    /\ \/ q = Ahead(p, k)
       \/ q = Ahead(Ahead(p, k), k)
       \/ l[2][0] = 40 /\ Ahead(q, l) = Ahead(p, k)

\* energy InitWorld gives a bot (line 63)
FullEnergy == 500

\* (dir, genome) of three bots: two that gain different energies and colours
\* in their first turn and move in their second, and one of blank opcodes
FedKinds == <<  <<2, GenomeEatMove>>, <<4, GenomePhotoMove>>, <<5, GenomeNoop>>  >>

\* the kinds that start with the program's energy, whose second byte is not
\* 0, instead of StartEnergy
RichKinds == {FedKinds[1], FedKinds[2]}

\* the first two bots of FedKinds, at p, the first cell, and at q, face the
\* same free cell, and the third is at r, the last cell
Converge(p, q, r) ==
    /\ p = 0
    /\ Ahead(p, FedKinds[1]) = Ahead(q, FedKinds[2])
    /\ r = NumCells - 1
    /\ Cardinality({p, q, r, Ahead(p, FedKinds[1])}) = 4

\* populations: which cells get a bot, and of which kind
Spawns ==
    { [c \in {p} |-> k] : p \in Cells, k \in SoloKinds }
    \cup { [c \in {p} |-> k] : p \in Corners, k \in MoverKinds }
    \cup { [c \in {m[1], m[3]} |-> IF c = m[1] THEN m[2] ELSE m[4]] :
             m \in {t \in Cells \X PairKinds \X Cells \X PairKinds :
                       Meet(t[1], t[2], t[3], t[4])} }
    \cup { [c \in {m[1], m[2], m[3]} |->
                IF c = m[1] THEN FedKinds[1]
                ELSE IF c = m[2] THEN FedKinds[2] ELSE FedKinds[3]] :
             m \in {t \in Cells \X Cells \X Cells : Converge(t[1], t[2], t[3])} }

\* a mover alone in any cell
LoneMovers == { [c \in {p} |-> k] : p \in Cells, k \in MoverKinds }

\* the runs: a population and the hardware concurrency reported; the lone
\* movers outside the corners run with one thread
Runs == (Spawns \X HardwareThreads) \cup (LoneMovers \X {1})

\* random streams: the call of GetRandomValue(0, 1000) that returns 1000 (the
\* only value above 999), named by the tick and the cell it is made for
LuckyDraws == {[tick |-> 0, cell |-> 1]}

\* byteDist(rng) % 50 of line 57 for the cells 0, 1, 2, ... with the seed of
\* line 54: the organic InitWorld gives them
SeedOrganic == <<37, 30, 12, 32, 49, 17, 26, 40, 32, 29, 7, 34>>

\* InitWorld (lines 53-70): organic everywhere in 0..49, bots where spawned
InitWorld(spawn, energy) ==
    [c \in Cells |->
        [bot |-> IF c \in DOMAIN spawn
                 THEN [DefaultBot EXCEPT !.alive = TRUE,
                                         !.energy = IF spawn[c] \in RichKinds
                                                    THEN FullEnergy ELSE energy,
                                         !.dir = spawn[c][1],
                                         !.genome = spawn[c][2]]
                 ELSE DefaultBot,
         organic |-> SeedOrganic[c + 1]]]

(* ------------------------------- state --------------------------------- *)
VARIABLES
    currentGrid,        \* the cells currentGrid points to
    nextGrid,           \* the cells nextGrid points to
    aliveCount,         \* std::atomic<int> aliveCount
    threadsCount,       \* UpdateWorld: threadsCount
    phase,              \* where UpdateWorld is: "idle", "prepare", "workers"
    prep,               \* loop variable of the carry-over pass (line 184)
    pc,                 \* per worker: "loop", "vm", "head", "tail", "done"
    cursor,             \* per worker: loop variable i of workerFunc
    localAlive,         \* per worker: localAlive
    commandsExecuted,   \* per worker: commandsExecuted of the running ProcessBot
    turnEnded,          \* per worker: turnEnded of the running ProcessBot
    nIdx,               \* per worker: nIdx of the running ProcessBot
    copied,             \* per worker: accesses of the copy of line 143 done
    tick,               \* number of completed UpdateWorld calls
    lucky,              \* the call of GetRandomValue that returns 1000
    trace               \* per cell, what workerFunc did for it in this tick

vars ==
    <<currentGrid, nextGrid, aliveCount, threadsCount, phase, prep, pc, cursor,
      localAlive, commandsExecuted, turnEnded, nIdx, copied, tick, lucky, trace>>

grids == <<currentGrid, nextGrid>>
locals == <<commandsExecuted, turnEnded, nIdx, copied>>

Workers == 0 .. (threadsCount - 1)

\* threadsCount of lines 172-173 for a reported hardware concurrency hw
ThreadsFor(hw) == IF hw = 0 THEN FallbackThreads ELSE hw

\* chunkSize (line 176), start and end (lines 204-205) of worker w
ChunkSize == NumCells \div threadsCount
RangeStart(w) == w * ChunkSize
\* mutant of RangeEnd: the last worker gets a chunk like the others
RangeEndNoRemainder(w) == RangeStart(w) + ChunkSize

RangeEnd(w) == IF w = threadsCount - 1 THEN NumCells ELSE RangeStart(w) + ChunkSize

NoTrace == [cmds |-> 0, op |-> -1, act |-> "none", to |-> -1, seen |-> 0]

Init ==
    /\ \E run \in Runs :
          /\ currentGrid = InitWorld(run[1], StartEnergy)
          /\ threadsCount = ThreadsFor(run[2])
    /\ nextGrid = [c \in Cells |-> DefaultCell]
    /\ aliveCount = 0
    /\ phase = "idle"
    /\ prep = 0
    /\ pc = [w \in Workers |-> "done"]
    /\ cursor = [w \in Workers |-> 0]
    /\ localAlive = [w \in Workers |-> 0]
    /\ commandsExecuted = [w \in Workers |-> 0]
    /\ turnEnded = [w \in Workers |-> FALSE]
    /\ nIdx = [w \in Workers |-> 0]
    /\ copied = [w \in Workers |-> 0]
    /\ tick = 0
    /\ lucky \in LuckyDraws
    /\ trace = [c \in Cells |-> NoTrace]

(* ----------------------------- UpdateWorld ----------------------------- *)
\* lines 159-176: reset the counter, start the carry-over pass
TickBegin ==
    /\ phase = "idle"
    /\ tick < MaxTicks
    /\ aliveCount' = 0
    /\ phase' = "prepare"
    /\ prep' = 0
    /\ trace' = [c \in Cells |-> NoTrace]
    /\ UNCHANGED <<grids, threadsCount, pc, cursor, localAlive, locals, tick, lucky>>

\* lines 184-187: one iteration of the carry-over pass
PrepareStep ==
    /\ phase = "prepare"
    /\ prep < NumCells
    /\ nextGrid' = [nextGrid EXCEPT ![prep] = Prepare(@, currentGrid[prep])]
    /\ prep' = prep + 1
    /\ UNCHANGED <<currentGrid, aliveCount, threadsCount, phase, pc, cursor,
                   localAlive, locals, tick, lucky, trace>>

\* mutant of SpawnWorkers: the threads start while the pass is running
SpawnWorkersEarly ==
    /\ phase = "prepare"
    /\ phase' = "workers"
    /\ pc' = [w \in Workers |-> "loop"]
    /\ cursor' = [w \in Workers |-> RangeStart(w)]
    /\ localAlive' = [w \in Workers |-> 0]
    /\ UNCHANGED <<grids, aliveCount, threadsCount, prep, locals, tick, lucky, trace>>

\* lines 203-207: the carry-over pass is over, the worker threads start
SpawnWorkers ==
    /\ phase = "prepare"
    /\ prep = NumCells
    /\ phase' = "workers"
    /\ pc' = [w \in Workers |-> "loop"]
    /\ cursor' = [w \in Workers |-> RangeStart(w)]
    /\ localAlive' = [w \in Workers |-> 0]
    /\ UNCHANGED <<grids, aliveCount, threadsCount, prep, locals, tick, lucky, trace>>

(* ----------------------------- workerFunc ------------------------------ *)
AtCell(w) ==
    /\ phase = "workers"
    /\ pc[w] = "loop"
    /\ cursor[w] < RangeEnd(w)

\* line 197: GetRandomValue(0, 1000) > 999 for cell c in this tick
Lucky(c) == lucky.tick = tick /\ lucky.cell = c

\* line 197, GetRandomValue(0, 1000) > 999: the empty cell regrows
Regrow(w) ==
    /\ AtCell(w)
    /\ ~currentGrid[cursor[w]].bot.alive
    /\ Lucky(cursor[w])
    /\ nextGrid' = [nextGrid EXCEPT ![cursor[w]].organic = @ + RegrowOrganic]
    /\ trace' = [trace EXCEPT ![cursor[w]].seen = @ + 1]
    /\ cursor' = [cursor EXCEPT ![w] = @ + 1]
    /\ UNCHANGED <<currentGrid, aliveCount, threadsCount, phase, prep, pc,
                   localAlive, locals, tick, lucky>>

\* line 197, GetRandomValue(0, 1000) <= 999: the empty cell is left alone
Skip(w) ==
    /\ AtCell(w)
    /\ ~currentGrid[cursor[w]].bot.alive
    /\ ~Lucky(cursor[w])
    /\ trace' = [trace EXCEPT ![cursor[w]].seen = @ + 1]
    /\ cursor' = [cursor EXCEPT ![w] = @ + 1]
    /\ UNCHANGED <<grids, aliveCount, threadsCount, phase, prep, pc,
                   localAlive, locals, tick, lucky>>

\* mutant of Die: the flag is cleared through the reference into readGrid
DieInPlace(w) ==
    /\ AtCell(w)
    /\ currentGrid[cursor[w]].bot.alive
    /\ currentGrid[cursor[w]].bot.energy <= 0
    /\ nextGrid' = [nextGrid EXCEPT ![cursor[w]].organic = @ + CorpseOrganic]
    /\ currentGrid' = [currentGrid EXCEPT ![cursor[w]].bot.alive = FALSE]
    /\ trace' = [trace EXCEPT ![cursor[w]].act = "die", ![cursor[w]].seen = @ + 1]
    /\ localAlive' = [localAlive EXCEPT ![w] = @ + 1]
    /\ cursor' = [cursor EXCEPT ![w] = @ + 1]
    /\ UNCHANGED <<aliveCount, threadsCount, phase, prep, pc, locals, tick, lucky>>

\* ProcessBot lines 78-82 and line 194: the bot has no energy left
Die(w) ==
    /\ AtCell(w)
    /\ currentGrid[cursor[w]].bot.alive
    /\ currentGrid[cursor[w]].bot.energy <= 0
    /\ nextGrid' = [nextGrid EXCEPT ![cursor[w]] = Decay(@)]
    /\ trace' = [trace EXCEPT ![cursor[w]].act = "die", ![cursor[w]].seen = @ + 1]
    /\ localAlive' = [localAlive EXCEPT ![w] = @ + 1]
    /\ cursor' = [cursor EXCEPT ![w] = @ + 1]
    /\ UNCHANGED <<currentGrid, aliveCount, threadsCount, phase, prep, pc,
                   locals, tick, lucky>>

\* mutant of Begin: a bot with energy 0 still runs its genome
BeginAtZero(w) ==
    /\ AtCell(w)
    /\ currentGrid[cursor[w]].bot.alive
    /\ currentGrid[cursor[w]].bot.energy >= 0
    /\ nextGrid' = [nextGrid EXCEPT ![cursor[w]].bot = currentGrid[cursor[w]].bot]
    /\ commandsExecuted' = [commandsExecuted EXCEPT ![w] = 0]
    /\ turnEnded' = [turnEnded EXCEPT ![w] = FALSE]
    /\ pc' = [pc EXCEPT ![w] = "vm"]
    /\ trace' = [trace EXCEPT ![cursor[w]].act = "run", ![cursor[w]].seen = @ + 1]
    /\ UNCHANGED <<currentGrid, aliveCount, threadsCount, phase, prep, cursor,
                   localAlive, nIdx, copied, tick, lucky>>

\* ProcessBot lines 85-90: copy the bot into the write grid, enter the loop
Begin(w) ==
    /\ AtCell(w)
    /\ currentGrid[cursor[w]].bot.alive
    /\ currentGrid[cursor[w]].bot.energy > 0
    /\ nextGrid' = [nextGrid EXCEPT ![cursor[w]].bot = currentGrid[cursor[w]].bot]
    /\ commandsExecuted' = [commandsExecuted EXCEPT ![w] = 0]
    /\ turnEnded' = [turnEnded EXCEPT ![w] = FALSE]
    /\ pc' = [pc EXCEPT ![w] = "vm"]
    /\ trace' = [trace EXCEPT ![cursor[w]].act = "run", ![cursor[w]].seen = @ + 1]
    /\ UNCHANGED <<currentGrid, aliveCount, threadsCount, phase, prep, cursor,
                   localAlive, nIdx, copied, tick, lucky>>

(* ----------------------- ProcessBot: the VM loop ----------------------- *)
\* opcodes that set turnEnded (lines 109, 119, 148)
EndsTurn(cmd) == cmd \in {20, 30, 40}

\* mutant of Branch: the test of line 142 is left out
BranchNoTargetCheck(cmd, victim, target) ==
    IF cmd < 8 THEN "jump"
    ELSE IF cmd >= 10 /\ cmd <= 15 THEN "turn"
    ELSE IF cmd = 20 THEN "photo"
    ELSE IF cmd = 30 THEN "eat"
    ELSE IF cmd = 40
         THEN IF victim.alive THEN "attack" ELSE "move"
    ELSE "noop"

\* the branch of lines 98-149 taken for cmd, given the neighbour in both grids
Branch(cmd, victim, target) ==
    IF cmd < 8 THEN "jump"
    ELSE IF cmd >= 10 /\ cmd <= 15 THEN "turn"
    ELSE IF cmd = 20 THEN "photo"
    ELSE IF cmd = 30 THEN "eat"
    ELSE IF cmd = 40
         THEN IF victim.alive THEN "attack"
              ELSE IF ~target.alive THEN "move" ELSE "blocked"
    ELSE "noop"

\* mutant of Decode: the turn range reaches up to opcode 19
DecodeWideTurn(cmd, nb, organic, victim) ==
    IF cmd < 8 THEN Jump(nb, cmd)
    ELSE IF cmd >= 10 /\ cmd <= 19 THEN Turn(nb, cmd)
    ELSE IF cmd = 20 THEN Photosynthesis(nb)
    ELSE IF cmd = 30 THEN Eat(nb, organic)
    ELSE IF cmd = 40 /\ victim.alive THEN Attack(nb, victim)
    ELSE nb

\* the write-grid bot after the opcode, relocation apart (lines 98-137)
Decode(cmd, nb, organic, victim) ==
    IF cmd < 8 THEN Jump(nb, cmd)
    ELSE IF cmd >= 10 /\ cmd <= 15 THEN Turn(nb, cmd)
    ELSE IF cmd = 20 THEN Photosynthesis(nb)
    ELSE IF cmd = 30 THEN Eat(nb, organic)
    ELSE IF cmd = 40 /\ victim.alive THEN Attack(nb, victim)
    ELSE nb

\* lines 92-151: fetch one opcode and execute it; a relocation only gets as
\* far as the test of line 142 here, its writes follow access by access
Step(w) ==
    /\ phase = "workers"
    /\ pc[w] = "vm"
    /\ commandsExecuted[w] < CommandLimit
    /\ ~turnEnded[w]
    /\ LET k == cursor[w]
           cmd == currentGrid[k].bot.genome[nextGrid[k].bot.ip]
           nb == Fetch(nextGrid[k].bot)
           n == NeighborIdx(k, nb.dir)
           organic == currentGrid[k].organic
           br == Branch(cmd, currentGrid[n].bot, nextGrid[n].bot)
       IN  /\ trace' = [trace EXCEPT ![k] =
                          [cmds |-> @.cmds + 1, op |-> cmd, act |-> br,
                           to |-> IF cmd = 40 THEN n ELSE -1, seen |-> @.seen]]
           /\ IF br = "move"
              THEN /\ nextGrid' = [nextGrid EXCEPT ![k].bot = nb]
                   /\ nIdx' = [nIdx EXCEPT ![w] = n]
                   /\ pc' = [pc EXCEPT ![w] = "head"]
                   /\ UNCHANGED <<commandsExecuted, turnEnded>>
              ELSE /\ nextGrid' =
                         [nextGrid EXCEPT
                            ![k].bot = Decode(cmd, nb, organic, currentGrid[n].bot),
                            ![k].organic = IF cmd = 30 THEN Eaten(@, organic) ELSE @]
                   /\ commandsExecuted' = [commandsExecuted EXCEPT ![w] = @ + 1]
                   /\ turnEnded' = [turnEnded EXCEPT ![w] = EndsTurn(cmd)]
                   /\ UNCHANGED <<nIdx, pc>>
    /\ UNCHANGED <<currentGrid, aliveCount, threadsCount, phase, prep, cursor,
                   localAlive, copied, tick, lucky>>

\* line 143, the first access of the copy of nextBot into writeGrid[nIdx].bot:
\* the byte that holds alive, the member the test of line 142 reads
MoveHead(w) ==
    /\ phase = "workers"
    /\ pc[w] = "head"
    /\ nextGrid' = [nextGrid EXCEPT
                      ![nIdx[w]].bot =
                          CopyStore(@, nextGrid[cursor[w]].bot, Accesses[1])]
    /\ copied' = [copied EXCEPT ![w] = 1]
    /\ pc' = [pc EXCEPT ![w] = "tail"]
    /\ UNCHANGED <<currentGrid, aliveCount, threadsCount, phase, prep, cursor,
                   localAlive, commandsExecuted, turnEnded, nIdx, tick, lucky,
                   trace>>

\* mutant of MoveStore: the access also takes the organic of the source cell
MoveStoreWithOrganic(w) ==
    /\ phase = "workers"
    /\ pc[w] = "tail"
    /\ copied[w] < Len(Accesses)
    /\ nextGrid' = [nextGrid EXCEPT
                      ![nIdx[w]].bot =
                          CopyStore(@, nextGrid[cursor[w]].bot,
                                    Accesses[copied[w] + 1]),
                      ![nIdx[w]].organic = nextGrid[cursor[w]].organic]
    /\ copied' = [copied EXCEPT ![w] = @ + 1]
    /\ UNCHANGED <<currentGrid, aliveCount, threadsCount, phase, prep, pc,
                   cursor, localAlive, commandsExecuted, turnEnded, nIdx, tick,
                   lucky, trace>>

\* line 143, one of the accesses after the first, the last included
MoveStore(w) ==
    /\ phase = "workers"
    /\ pc[w] = "tail"
    /\ copied[w] < Len(Accesses)
    /\ nextGrid' = [nextGrid EXCEPT
                      ![nIdx[w]].bot =
                          CopyStore(@, nextGrid[cursor[w]].bot,
                                    Accesses[copied[w] + 1])]
    /\ copied' = [copied EXCEPT ![w] = @ + 1]
    /\ UNCHANGED <<currentGrid, aliveCount, threadsCount, phase, prep, pc,
                   cursor, localAlive, commandsExecuted, turnEnded, nIdx, tick,
                   lucky, trace>>

\* lines 144-151, once the copy of line 143 is complete: the source index is
\* released and pays for the movement, the turn ends
MoveTail(w) ==
    /\ phase = "workers"
    /\ pc[w] = "tail"
    /\ copied[w] = Len(Accesses)
    /\ nextGrid' = [nextGrid EXCEPT ![cursor[w]].bot = Vacate(@)]
    /\ copied' = [copied EXCEPT ![w] = 0]
    /\ commandsExecuted' = [commandsExecuted EXCEPT ![w] = @ + 1]
    /\ turnEnded' = [turnEnded EXCEPT ![w] = TRUE]
    /\ pc' = [pc EXCEPT ![w] = "vm"]
    /\ UNCHANGED <<currentGrid, aliveCount, threadsCount, phase, prep, cursor,
                   localAlive, nIdx, tick, lucky, trace>>

\* loop exit at line 92, line 154, return to workerFunc (line 194)
Finish(w) ==
    /\ phase = "workers"
    /\ pc[w] = "vm"
    /\ ~(commandsExecuted[w] < CommandLimit /\ ~turnEnded[w])
    /\ nextGrid' = [nextGrid EXCEPT ![cursor[w]].bot = Exist(@)]
    /\ localAlive' = [localAlive EXCEPT ![w] = @ + 1]
    /\ cursor' = [cursor EXCEPT ![w] = @ + 1]
    /\ pc' = [pc EXCEPT ![w] = "loop"]
    /\ commandsExecuted' = [commandsExecuted EXCEPT ![w] = 0]
    /\ turnEnded' = [turnEnded EXCEPT ![w] = FALSE]
    /\ nIdx' = [nIdx EXCEPT ![w] = 0]
    /\ UNCHANGED <<currentGrid, aliveCount, threadsCount, phase, prep, copied,
                   tick, lucky, trace>>

\* mutant of Report: the counter is stored, not added to
ReportOverwrite(w) ==
    /\ phase = "workers"
    /\ pc[w] = "loop"
    /\ cursor[w] = RangeEnd(w)
    /\ aliveCount' = localAlive[w]
    /\ pc' = [pc EXCEPT ![w] = "done"]
    /\ UNCHANGED <<grids, threadsCount, phase, prep, cursor, localAlive, locals,
                   tick, lucky, trace>>

\* line 200: the worker's range is done, aliveCount += localAlive
Report(w) ==
    /\ phase = "workers"
    /\ pc[w] = "loop"
    /\ cursor[w] = RangeEnd(w)
    /\ aliveCount' = aliveCount + localAlive[w]
    /\ pc' = [pc EXCEPT ![w] = "done"]
    /\ UNCHANGED <<grids, threadsCount, phase, prep, cursor, localAlive, locals,
                   tick, lucky, trace>>

\* every worker has been joined (line 209)
Joined == phase = "workers" /\ \A w \in Workers : pc[w] = "done"

\* line 212: std::swap(currentGrid, nextGrid)
Swap ==
    /\ Joined
    /\ currentGrid' = nextGrid
    /\ nextGrid' = currentGrid
    /\ phase' = "idle"
    /\ tick' = tick + 1
    /\ UNCHANGED <<aliveCount, threadsCount, prep, pc, cursor, localAlive, locals,
                   lucky, trace>>

Next ==
    \/ TickBegin
    \/ PrepareStep
    \/ SpawnWorkers
    \/ \E w \in Workers : Regrow(w)
    \/ \E w \in Workers : Skip(w)
    \/ \E w \in Workers : Die(w)
    \/ \E w \in Workers : Begin(w)
    \/ \E w \in Workers : Step(w)
    \/ \E w \in Workers : MoveHead(w)
    \/ \E w \in Workers : MoveStore(w)
    \/ \E w \in Workers : MoveTail(w)
    \/ \E w \in Workers : Finish(w)
    \/ \E w \in Workers : Report(w)
    \/ Swap

Spec == Init /\ [][Next]_vars

\* the same program started with any thread count of ManyThreads
InitRanges ==
    /\ \E run \in RangeSpawns :
          /\ currentGrid = InitWorld(run[1], StartEnergy)
          /\ threadsCount = ThreadsFor(run[2])
    /\ nextGrid = [c \in Cells |-> DefaultCell]
    /\ aliveCount = 0
    /\ phase = "idle"
    /\ prep = 0
    /\ pc = [w \in Workers |-> "done"]
    /\ cursor = [w \in Workers |-> 0]
    /\ localAlive = [w \in Workers |-> 0]
    /\ commandsExecuted = [w \in Workers |-> 0]
    /\ turnEnded = [w \in Workers |-> FALSE]
    /\ nIdx = [w \in Workers |-> 0]
    /\ copied = [w \in Workers |-> 0]
    /\ tick = 0
    /\ lucky \in LuckyDraws
    /\ trace = [c \in Cells |-> NoTrace]

SpecRanges == InitRanges /\ [][Next]_vars

(* ------------------------------- claims -------------------------------- *)
\* In a Joined state currentGrid is the grid the tick read, nextGrid the grid
\* it wrote, and trace[c] what ProcessBot did for the bot that started at c.

Living(grid) == {c \in Cells : grid[c].bot.alive}

\* the cell one step from c in direction dir on the torus, by coordinates
TorusStep(c, dir) ==
    LET x == c % WORLD_W
        y == c \div WORLD_W
    IN  ((y + DIR_Y[dir + 1]) % WORLD_H) * WORLD_W + ((x + DIR_X[dir + 1]) % WORLD_W)

\* C1 (as claimed): after the tick, the bot a relocation put at the neighbour
\* index is alive with the mover's energy minus 2 (movement) minus 1
\* (existence), and the bot at the source index is not alive.
C1_RelocatedPaysCosts ==
    Joined =>
      \A c \in Cells :
        trace[c].act = "move" =>
          /\ nextGrid[trace[c].to].bot.alive
          /\ nextGrid[trace[c].to].bot.energy =
                currentGrid[c].bot.energy - MoveCost - ExistCost
          /\ ~nextGrid[c].bot.alive

\* C2: after a tick the write grid holds at most as many living bots as the
\* read grid held: no bot is duplicated or created.
C2_PopulationNeverGrows ==
    Joined => Cardinality(Living(nextGrid)) <= Cardinality(Living(currentGrid))

\* two workers have each relocated a bot into the same cell, their copies
\* interleaved: the cell holds one living bot, with genome bytes of both
C2_Witness ==
    /\ Joined
    /\ threadsCount = 2
    /\ \E n \in Cells : \E p \in Cells : \E q \in Cells :
         /\ p # q
         /\ p < RangeEnd(0)
         /\ RangeStart(1) <= q
         /\ trace[p].act = "move" /\ trace[p].to = n
         /\ trace[q].act = "move" /\ trace[q].to = n
         /\ nextGrid[n].bot.alive
         /\ nextGrid[n].bot.genome # currentGrid[p].bot.genome
         /\ nextGrid[n].bot.genome # currentGrid[q].bot.genome
         /\ Living(nextGrid) = {n}
         /\ Living(currentGrid) = {p, q}

\* C3: a lone bot with energy > 0 whose genome is opcode 40 everywhere is,
\* after one tick, the only living bot, one torus step from where it was in
\* the direction it faced, and its former cell holds no living bot.
C3_LoneMoverStepsOnTorus ==
    Joined =>
      \A c \in Cells :
        ( /\ Living(currentGrid) = {c}
          /\ currentGrid[c].bot.energy > 0
          /\ \A g \in GenomeIdx : currentGrid[c].bot.genome[g] = 40 )
        => /\ Living(nextGrid) = {TorusStep(c, currentGrid[c].bot.dir)}
           /\ ~nextGrid[c].bot.alive

\* a lone mover in column 0 facing west has crossed the edge
C3_Witness ==
    /\ Joined
    /\ \E c \in Cells :
         /\ Living(currentGrid) = {c}
         /\ currentGrid[c].bot.genome = GenomeMove
         /\ currentGrid[c].bot.dir = 6
         /\ c % WORLD_W = 0
         /\ nextGrid[c + WORLD_W - 1].bot.alive

\* C4, result: a bot whose opcode 40 met a neighbour alive in the read grid
\* is alive at its own index after the tick, with its energy raised by
\* floor(neighbour's pre-tick energy / 2) (and lowered by the existence cost).
C4_AttackResult ==
    Joined =>
      \A c \in Cells :
        trace[c].act = "attack" =>
          /\ currentGrid[trace[c].to].bot.alive
          /\ nextGrid[c].bot.alive
          /\ nextGrid[c].bot.energy =
                currentGrid[c].bot.energy
                + (currentGrid[trace[c].to].bot.energy \div 2) - ExistCost

\* C4, frame: the step that executes the attack writes no cell of the write
\* grid but the attacker's own, and starts no relocation.
C4_AttackFrame ==
    \A w \in Workers :
      ( /\ phase = "workers"
        /\ pc[w] = "vm"
        /\ trace'[cursor[w]] # trace[cursor[w]]
        /\ trace'[cursor[w]].act = "attack" )
      => /\ \A c \in Cells \ {cursor[w]} : nextGrid'[c] = nextGrid[c]
         /\ nextGrid'[cursor[w]].bot.energy =
               nextGrid[cursor[w]].bot.energy
               + (currentGrid[trace'[cursor[w]].to].bot.energy \div 2)
         /\ pc'[w] = "vm"

\* C4: an attacker is not relocated, gains floor(neighbour.energy / 2) of the
\* neighbour's pre-tick energy, and leaves the neighbour's cell of the write
\* grid as the neighbour's own processing makes it.
C4_AttackNeverRelocates == []C4_AttackResult /\ [][C4_AttackFrame]_vars

\* an attack on a neighbour with energy above 1 has paid
C4_Witness ==
    /\ Joined
    /\ \E c \in Cells :
         /\ trace[c].act = "attack"
         /\ currentGrid[trace[c].to].bot.energy > 1
         /\ nextGrid[c].bot.energy > currentGrid[c].bot.energy

\* C5: a bot alive in the read grid with energy <= 0 is not alive at its
\* index in the write grid after the tick, and that index's organic is the
\* carried-over organic plus exactly 50.
C5_DeadBotBecomesOrganic ==
    Joined =>
      \A c \in Cells :
        (currentGrid[c].bot.alive /\ currentGrid[c].bot.energy <= 0) =>
          /\ ~nextGrid[c].bot.alive
          /\ nextGrid[c].organic = currentGrid[c].organic + CorpseOrganic

C5_Witness ==
    /\ Joined
    /\ \E c \in Cells :
         /\ currentGrid[c].bot.alive
         /\ currentGrid[c].bot.energy <= 0
         /\ currentGrid[c].organic > 0
         /\ trace[c].act = "die"

\* C6: at every point of every tick the organic of every cell of both grids
\* is >= 0.
C6_OrganicNeverNegative ==
    \A c \in Cells : currentGrid[c].organic >= 0 /\ nextGrid[c].organic >= 0

\* a bot has eaten all the organic of a cell that held less than a full bite
C6_Witness ==
    \E c \in Cells :
      /\ trace[c].act = "eat"
      /\ currentGrid[c].organic > 0
      /\ currentGrid[c].organic < EatMax
      /\ nextGrid[c].organic = 0

\* C7: a bot executing opcode 30 eats min(organic of its cell in the read
\* grid, 20): after the tick its energy is the prior energy plus that minus
\* 1 and its cell's organic in the write grid is the carried-over value minus
\* that; the opcode ends its turn (with organic 0 as well).
C7_EatTakesMinOrganic20 ==
    /\ \A w \in Workers :
         (phase = "workers" /\ pc[w] = "vm" /\ trace[cursor[w]].op = 30)
           => turnEnded[w]
    /\ Joined =>
         \A c \in Cells :
           trace[c].op = 30 =>
             LET eat == IF currentGrid[c].organic < 20
                        THEN currentGrid[c].organic ELSE 20
             IN  /\ nextGrid[c].bot.alive
                 /\ nextGrid[c].bot.energy = currentGrid[c].bot.energy + eat - 1
                 /\ nextGrid[c].organic = currentGrid[c].organic - eat

\* opcode 30 on a cell without organic: nothing gained, 1 paid
C7_Witness ==
    /\ Joined
    /\ \E c \in Cells :
         /\ trace[c].op = 30
         /\ currentGrid[c].organic = 0
         /\ nextGrid[c].bot.energy = currentGrid[c].bot.energy - 1

\* C8: a bot with energy e > 0 that executes opcode 20 has energy e + 5 - 1
\* at its own index after the tick, its colour is (0,255,0,255), and the
\* opcode ends its turn.
C8_PhotosynthesisNetFour ==
    /\ \A w \in Workers :
         (phase = "workers" /\ pc[w] = "vm" /\ trace[cursor[w]].op = 20)
           => turnEnded[w]
    /\ Joined =>
         \A c \in Cells :
           trace[c].op = 20 =>
             /\ nextGrid[c].bot.alive
             /\ nextGrid[c].bot.energy = currentGrid[c].bot.energy + 5 - 1
             /\ nextGrid[c].bot.color = <<0, 255, 0, 255>>

\* a bot that was red from eating has photosynthesised
C8_Witness ==
    /\ Joined
    /\ \E c \in Cells :
         /\ trace[c].op = 20
         /\ currentGrid[c].bot.color = COLOR_RED
         /\ nextGrid[c].bot.color = COLOR_GREEN

JumpOnly(genome) == \A g \in GenomeIdx : genome[g] \in 0 .. 7

\* C9: one ProcessBot call fetches at most 10 opcodes; for a genome of jump
\* opcodes only it fetches exactly 10, no opcode ends the turn, and the bot
\* stays at its index with its energy lowered by exactly 1.
C9_BudgetOfTenFetches ==
    /\ \A w \in Workers : commandsExecuted[w] <= 10
    /\ \A c \in Cells : trace[c].cmds <= 10
    /\ \A w \in Workers :
         ( /\ phase = "workers"
           /\ pc[w] = "vm"
           /\ JumpOnly(currentGrid[cursor[w]].bot.genome) )
         => ~turnEnded[w]
    /\ Joined =>
         \A c \in Cells :
           ( /\ currentGrid[c].bot.alive
             /\ currentGrid[c].bot.energy > 0
             /\ JumpOnly(currentGrid[c].bot.genome) )
           => /\ trace[c].cmds = 10
              /\ nextGrid[c].bot.alive
              /\ nextGrid[c].bot.energy = currentGrid[c].bot.energy - 1

C9_Witness ==
    /\ Joined
    /\ \E c \in Cells :
         /\ currentGrid[c].bot.alive
         /\ currentGrid[c].bot.genome = GenomeJump
         /\ trace[c].cmds = 10
         /\ nextGrid[c].bot.ip # currentGrid[c].bot.ip

\* C10: from the start of a tick to the swap no step changes any field of
\* any cell of the current grid: only the swap changes what currentGrid is.
C10_CurrentGridReadOnly ==
    [][(~Joined \/ phase' # "idle") => currentGrid' = currentGrid]_vars

\* every worker is done, bots have run and died, and the two grids differ
C10_Witness ==
    /\ Joined
    /\ tick > 0
    /\ \E c \in Cells : trace[c].act = "die"
    /\ \E c \in Cells : nextGrid[c] # currentGrid[c]


\* C11: after a tick (every worker joined) aliveCount is the number of cells
\* whose bot was alive in the grid the tick read, the bots that died of
\* energy <= 0 included, for every order of the workers' additions.
C11_AliveCountIsPopulation ==
    Joined => aliveCount = Cardinality(Living(currentGrid))

\* two workers have each added a bot, one of which died in this tick
C11_Witness ==
    /\ Joined
    /\ threadsCount = 2
    /\ localAlive[0] = 1
    /\ localAlive[1] = 1
    /\ aliveCount = 2
    /\ \E c \in Cells : trace[c].act = "die"


\* the cells whose bot tried in this tick to relocate into n, a cell without
\* a living bot in the grid the tick read
Contenders(n) ==
    {c \in Cells : /\ trace[c].op = 40
                   /\ trace[c].to = n
                   /\ trace[c].act \in {"move", "blocked"}}

\* C12: when two or more bots relocate toward the same empty cell in one
\* tick, after the tick the cell holds a living bot, exactly one contender
\* has left its source and every other contender is still alive at its
\* source, whatever the interleaving of the workers.
C12_ContentionLosesNobody ==
    Joined =>
      \A n \in Cells :
        Cardinality(Contenders(n)) >= 2 =>
          /\ nextGrid[n].bot.alive
          /\ Cardinality({c \in Contenders(n) : ~nextGrid[c].bot.alive}) = 1
          /\ \A c \in Contenders(n) :
               nextGrid[c].bot.alive \/ trace[c].act = "move"


\* the carry-over pass (lines 184-187) has been applied to every cell
CarriedOver ==
    \A c \in Cells :
        /\ ~nextGrid[c].bot.alive
        /\ nextGrid[c].organic = currentGrid[c].organic

\* a step in which some worker's loop variable, counter, position or
\* ProcessBot local changes
WorkerMoves ==
    \/ pc' # pc
    \/ cursor' # cursor
    \/ localAlive' # localAlive
    \/ locals' # locals

\* C13: the phases of a tick are strictly ordered. The workers start only
\* when the carry-over pass has covered every cell, nothing of a worker
\* changes before that, the pass itself writes nothing after the workers
\* have started, and the buffers are swapped only when every worker has
\* run through its range and reported.
C13_PhasesOrdered ==
    [][/\ (phase # "workers" /\ phase' = "workers")
             => (prep = NumCells /\ CarriedOver)
       /\ WorkerMoves
             => (phase = "workers" \/ (phase = "prepare" /\ phase' = "workers"))
       /\ prep' # prep => phase # "workers"
       /\ (tick' # tick \/ currentGrid' # currentGrid)
             => (/\ phase = "workers"
                 /\ \A w \in Workers : pc[w] = "done" /\ cursor[w] = RangeEnd(w))
      ]_vars

\* the second tick: the carry-over pass has cleared a grid that held living
\* bots, two workers have run through it and the swap is due
C13_Witness ==
    /\ tick = 1
    /\ Joined
    /\ threadsCount = 2
    /\ \E c \in Cells : trace[c].act # "none"
    /\ \E c \in Cells : currentGrid[c].bot.alive


\* the workers whose range [RangeStart, RangeEnd) holds cell c
Owners(c) == {w \in Workers : RangeStart(w) <= c /\ c < RangeEnd(w)}

\* C14: for every thread count T >= 1, larger than the number of cells or
\* not dividing it included, the ranges are contiguous and disjoint, their
\* union is all cells, every range but the last has NumCells \div T cells
\* and the last takes the remainder; every cell is processed exactly once,
\* by the one worker that owns it.
C14_RangesPartitionCells ==
    /\ RangeStart(0) = 0
    /\ RangeEnd(threadsCount - 1) = NumCells
    /\ \A w \in Workers :
         /\ RangeStart(w) <= RangeEnd(w)
         /\ w < threadsCount - 1 =>
              /\ RangeEnd(w) = RangeStart(w + 1)
              /\ RangeEnd(w) - RangeStart(w) = NumCells \div threadsCount
    /\ \A c \in Cells : Cardinality(Owners(c)) = 1
    /\ phase = "workers" =>
         \A c \in Cells : \A w \in Owners(c) :
            /\ RangeStart(w) <= cursor[w]
            /\ cursor[w] <= RangeEnd(w)
            /\ trace[c].seen =
                 (IF cursor[w] > c \/ (cursor[w] = c /\ pc[w] \in {"vm", "head", "tail"})
                  THEN 1 ELSE 0)
    /\ Joined => \A c \in Cells : trace[c].seen = 1

\* a tick is complete with a thread count that does not divide the number of
\* cells: the last worker has run through more cells than the others own
C14_Witness ==
    /\ Joined
    /\ threadsCount > 1
    /\ NumCells % threadsCount # 0
    /\ threadsCount < NumCells
    /\ cursor[threadsCount - 1] - RangeStart(threadsCount - 1) > ChunkSize
    /\ \E c \in Cells : trace[c].act = "move"


\* worker w takes the step
Acting(w) ==
    \/ pc'[w] # pc[w]
    \/ cursor'[w] # cursor[w]
    \/ commandsExecuted'[w] # commandsExecuted[w]
    \/ copied'[w] # copied[w]

\* C15: while the workers run, the worker processing cell i writes only
\* next[i] (bot and organic) and, in a relocation only, the bot of the
\* neighbour next[n]. Every write is made by one worker: either to the cell
\* under its cursor, which is in its own range, and to the bot of that cell
\* only when the cell holds a living bot in the grid being read; or, during
\* the copy of a relocation, to the bot (never the organic) of a neighbour
\* that holds no living bot in the grid being read. So the organic of a cell
\* is written by its owner only, and a bot field is written by two different
\* workers only when both relocate into a cell without a living bot.
C15_WorkerWritesOwnCellOrTarget ==
    [][(phase = "workers" /\ phase' = "workers") =>
         \A c \in Cells :
           nextGrid'[c] # nextGrid[c] =>
             \E w \in Workers :
               /\ Acting(w)
               /\ \A v \in Workers \ {w} : ~Acting(v)
               /\ \/ /\ c = cursor[w]
                     /\ w \in Owners(c)
                     /\ nextGrid'[c].bot # nextGrid[c].bot
                           => currentGrid[c].bot.alive
                  \/ /\ c = nIdx[w]
                     /\ c # cursor[w]
                     /\ pc[w] \in {"head", "tail"}
                     /\ copied[w] < Len(Accesses)
                     /\ trace[cursor[w]].act = "move"
                     /\ nextGrid'[c].organic = nextGrid[c].organic
                     /\ ~currentGrid[c].bot.alive
      ]_vars

\* a worker has relocated its bot into a cell of another worker's range, a
\* free cell whose organic its owner has raised in the same tick
C15_Witness ==
    \E w \in Workers :
        /\ phase = "workers"
        /\ pc[w] = "vm"
        /\ turnEnded[w]
        /\ trace[cursor[w]].act = "move"
        /\ w \notin Owners(nIdx[w])
        /\ nextGrid[nIdx[w]].bot.alive
        /\ nextGrid[nIdx[w]].organic # nextGrid[cursor[w]].organic
        /\ nextGrid[nIdx[w]].organic =
              currentGrid[nIdx[w]].organic + RegrowOrganic


\* C16: in every reachable state every bot record of both buffers, living
\* or not, has ip in 0..63 and dir in 0..7, and every neighbour index that
\* is computed lies inside the grid.
C16_FieldsInRange ==
    /\ \A c \in Cells :
         /\ currentGrid[c].bot.ip \in 0 .. (GENOME_SIZE - 1)
         /\ nextGrid[c].bot.ip \in 0 .. (GENOME_SIZE - 1)
         /\ currentGrid[c].bot.dir \in 0 .. 7
         /\ nextGrid[c].bot.dir \in 0 .. 7
         /\ trace[c].to \in Cells \cup {-1}
         /\ \A dir \in 0 .. 7 : NeighborIdx(c, dir) \in Cells
    /\ \A w \in Workers : nIdx[w] \in Cells

\* the second turn of a bot of GenomeWrap facing direction 7: its first turn
\* took ip by a jump from 57 past the end of the genome to 1 and left it at
\* 2; now the ninth fetch, at ip 63, has taken ip to 0 and the opcode fetched
\* has turned the bot by 3 to direction 2
C16_Witness ==
    \E c \in Cells :
        /\ phase = "workers"
        /\ tick = 1
        /\ currentGrid[c].bot.alive
        /\ currentGrid[c].bot.genome = GenomeWrap
        /\ currentGrid[c].bot.ip = 2
        /\ currentGrid[c].bot.dir = 7
        /\ trace[c].cmds = 9
        /\ trace[c].op = currentGrid[c].bot.genome[GENOME_SIZE - 1]
        /\ trace[c].op \in 10 .. 15
        /\ nextGrid[c].bot.ip = 0
        /\ nextGrid[c].bot.dir = 2


\* an opcode none of the branches of lines 98-149 takes
Blank(cmd) == cmd \notin (0 .. 7) \cup (10 .. 15) \cup {20, 30, 40}

\* the ten opcodes a bot fetches from ip on are all blank
TenBlanks(bot) ==
    \A k \in 0 .. 9 : Blank(bot.genome[(bot.ip + k) % GENOME_SIZE])

\* after the tick a bot that fetched ten blank opcodes is alive at its own
\* cell with ip ten further, one energy less and nothing else changed
C17_TenBlanksResult ==
    Joined =>
      \A c \in Cells :
        (/\ currentGrid[c].bot.alive
         /\ currentGrid[c].bot.energy > 0
         /\ TenBlanks(currentGrid[c].bot)) =>
          /\ trace[c].cmds = 10
          /\ nextGrid[c].bot =
               [currentGrid[c].bot EXCEPT !.ip = (@ + 10) % GENOME_SIZE,
                                          !.energy = @ - ExistCost]
          /\ nextGrid[c].organic = currentGrid[c].organic

\* a step that executes a blank opcode changes the ip of the bot under the
\* cursor and nothing else in the write grid
C17_BlankFrame ==
    \A w \in Workers :
      (/\ phase = "workers"
       /\ pc[w] = "vm"
       /\ commandsExecuted'[w] = commandsExecuted[w] + 1
       /\ Blank(trace'[cursor[w]].op)) =>
         nextGrid' = [nextGrid EXCEPT
                        ![cursor[w]].bot.ip = (@ + 1) % GENOME_SIZE]

\* C17: an opcode outside 0..7, 10..15, 20, 30, 40 changes only ip, and a
\* bot whose ten fetched opcodes are all such ends the tick alive at its own
\* cell with ip = (ip + 10) mod 64 and energy lowered by 1, its dir, colour,
\* genome, the organic of its cell and every other cell left as they were.
C17_BlankOpcodesOnlyAdvanceIp ==
    []C17_TenBlanksResult /\ [][C17_BlankFrame]_vars

\* a bot of blank opcodes (8, 9, 16, 19, ..., 255) has run its ten fetches
C17_Witness ==
    /\ Joined
    /\ \E c \in Cells :
         /\ currentGrid[c].bot.alive
         /\ currentGrid[c].bot.energy > 0
         /\ TenBlanks(currentGrid[c].bot)
         /\ trace[c].cmds = 10
         /\ trace[c].op = 255
         /\ nextGrid[c].bot.ip = 10


\* C18: the current buffer changes only at the swap, so it is the grid of
\* the last tick boundary: every living bot in it has energy >= 0, hence the
\* energy an attacker gains (half the victim's) is never negative and the
\* death handling of lines 78-82 only ever runs for a bot with energy
\* exactly 0.
C18_EnergyNonNegativeAtBoundary ==
    /\ \A c \in Cells :
         currentGrid[c].bot.alive => currentGrid[c].bot.energy >= 0
    /\ phase = "workers" =>
         \A c \in Cells :
            /\ trace[c].act = "attack" =>
                 Half(currentGrid[trace[c].to].bot.energy) >= 0
            /\ trace[c].act = "die" => currentGrid[c].bot.energy = 0

\* the second tick of three bots: one that reached energy 0 is handled as
\* dead; the other two, with energies that differ in both low bytes, have
\* both relocated into the same cell, and the living record left there has
\* the lowest byte of the energy of one and the second byte of the other:
\* the energy of neither
C18_Witness ==
    /\ Joined
    /\ tick = 1
    /\ \E c \in Cells :
         /\ trace[c].act = "die"
         /\ currentGrid[c].bot.alive
         /\ currentGrid[c].bot.energy = 0
    /\ \E n \in Cells : \E p \in Contenders(n) : \E q \in Contenders(n) :
         /\ trace[p].act = "move"
         /\ trace[q].act = "move"
         /\ nextGrid[n].bot.alive
         /\ nextGrid[n].bot.energy \notin
               {currentGrid[p].bot.energy, currentGrid[q].bot.energy}
         /\ ByteOf(nextGrid[n].bot.energy, 0) = ByteOf(currentGrid[p].bot.energy, 0)
         /\ ByteOf(nextGrid[n].bot.energy, 1) = ByteOf(currentGrid[q].bot.energy, 1)
         /\ nextGrid[n].bot.energy > 0


\* the cells whose bot runs its genome in this tick
Runners ==
    {c \in Cells : currentGrid[c].bot.alive /\ currentGrid[c].bot.energy > 0}

\* where the bot that started the tick at c is after it
Place(c) == IF trace[c].act = "move" THEN trace[c].to ELSE c

\* the lowest cell of a non-empty set of cells
Lowest(S) == CHOOSE c \in S : \A d \in S : c <= d

\* C19: with a single worker the cells are processed in increasing order
\* and no bot is lost: every bot that was alive with energy > 0 is alive in
\* exactly one cell of the next grid (its own, or the one it relocated to,
\* its source then being free), no two bots share a cell and no other cell
\* holds a living bot. When several bots try to relocate into one cell, the
\* one at the lowest index relocates and each other stays alive at its
\* source and pays only the 1 of line 154.
C19_SingleWorkerLosesNoBot ==
    threadsCount = 1 =>
      /\ phase = "workers" =>
           \A c \in Cells : \A d \in Cells :
              (d < c /\ trace[c].seen = 1) => trace[d].seen = 1
      /\ Joined =>
           /\ \A c \in Runners :
                /\ nextGrid[Place(c)].bot.alive
                /\ nextGrid[Place(c)].bot.genome = currentGrid[c].bot.genome
                /\ Place(c) # c => ~nextGrid[c].bot.alive
           /\ \A c \in Runners : \A d \in Runners :
                c # d => Place(c) # Place(d)
           /\ Living(nextGrid) = {Place(c) : c \in Runners}
           /\ \A n \in Cells :
                Cardinality(Contenders(n)) >= 2 =>
                  /\ trace[Lowest(Contenders(n))].act = "move"
                  /\ \A c \in Contenders(n) \ {Lowest(Contenders(n))} :
                       /\ trace[c].act = "blocked"
                       /\ nextGrid[c].bot.alive
                       /\ nextGrid[c].bot.energy =
                            currentGrid[c].bot.energy - ExistCost

\* one worker, two bots heading for the same free cell: the first has
\* relocated, the second was refused and is still at its source
C19_Witness ==
    /\ Joined
    /\ threadsCount = 1
    /\ \E n \in Cells : \E c \in Contenders(n) : \E d \in Contenders(n) :
         /\ c < d
         /\ trace[c].act = "move"
         /\ trace[d].act = "blocked"
         /\ nextGrid[n].bot.alive
         /\ nextGrid[d].bot.alive


\* a bot whose genome holds neither photosynthesis nor eating and that did
\* not attack in this tick: it gained no energy
Gainless(c) ==
    /\ \A g \in GenomeIdx : currentGrid[c].bot.genome[g] \notin {20, 30}
    /\ trace[c].act # "attack"

\* C20: a bot that gains no energy in a tick, whatever else it does,
\* relocating included, has at least 1 energy less after the tick (so that a
\* bot that never gains reaches energy <= 0 and is turned into organic).
C20_GainlessBotLosesEnergy ==
    Joined =>
      \A c \in Runners :
        Gainless(c) =>
          nextGrid[Place(c)].bot.energy
              <= currentGrid[c].bot.energy - ExistCost

====
